---- MODULE Spec2Model ----
(***************************************************************************)
(* Model of CustomTokenizer (src/src/utils/tokenizer.ts).                  *)
(*                                                                         *)
(* A string is a sequence of characters; a character is a one-letter TLA+  *)
(* string.  The characters a TLA+ string cannot hold are written by their  *)
(* Unicode names: "BACKTICK" (U+0060), "EN DASH" (U+2013), "EM DASH"       *)
(* (U+2014), and the whitespace characters beyond space, tab, line feed,   *)
(* form feed and carriage return ("LINE TABULATION", "NO-BREAK SPACE",     *)
(* ...).                                                                   *)
(* Every other string, the names of the special tokens and of the members  *)
(* of Object.prototype among them, is spelled character by character.      *)
(*                                                                         *)
(* A Vocab is a JavaScript object: the list of its own (key, value)        *)
(* entries, in the order Object.entries gives them (keys that are array    *)
(* indices first, ascending, then the other keys as inserted), with        *)
(* distinct keys; a lookup also finds the members it inherits.  The values *)
(* of the entries are numbers.  What a lookup returns is a number or an    *)
(* inherited member; the two are written Number(n) and Member(k), so that  *)
(* no member equals a number.  reverseVocab is written with numbers only,  *)
(* so it is a function from numbers to tokens.                             *)
(*                                                                         *)
(* Vocab objects have identity: the field vocab of a tokenizer, and the    *)
(* field vocab of what toJSON returns, hold a reference, and objects maps  *)
(* the references in use to the objects.  A write through a reference      *)
(* changes the object for every holder of the reference.  A reference is a *)
(* positive number; only the identity of references matters, so an object  *)
(* no one refers to any longer leaves objects and gives its number back.   *)
(* reverseVocab is reached through its tokenizer alone (no method returns  *)
(* it), so it is written as a value.                                       *)
(***************************************************************************)
EXTENDS Integers, Sequences, FiniteSets, TLC

VARIABLES
    specialTokens,   \* readonly string[]           (line 14)
    caseSensitive,   \* readonly boolean            (line 15)
    maxVocabSize,    \* readonly number | undefined (line 16); 0 stands for undefined
    vocab,           \* Vocab                       (line 11): a reference
    reverseVocab,    \* ReverseVocab                (line 13)
    objects,         \* the Vocab objects in use, by reference
    last             \* the most recent call: its name, its argument and what it returned

vars == <<specialTokens, caseSensitive, maxVocabSize, vocab, reverseVocab, objects, last>>

\* the object this.vocab refers to
thisVocab == objects[vocab]

----------------------------------------------------------------------------
(* Bounds of the model. *)

\* most characters in the argument of one call (in a corpus: over all its texts)
MaxLen == 3
\* longest id sequence given to decode
MaxIds == 2

----------------------------------------------------------------------------
(* Characters and strings. *)

PAD == <<"<", "P", "A", "D", ">">>
UNK == <<"<", "U", "N", "K", ">">>
CLS == <<"<", "C", "L", "S", ">">>
SEP == <<"<", "S", "E", "P", ">">>

\* what `result += token` appends when token is the value undefined
UndefinedText == <<"u", "n", "d", "e", "f", "i", "n", "e", "d">>

\* the characters texts of the model are written with: a letter, a space, a mark
\* the splitter sets apart and a mark only decode treats as punctuation
Alphabet == {"A", " ", "!", "-"}

\* /\s/, and the characters trim() and trimEnd() remove (WhiteSpace and
\* LineTerminator of ECMAScript): U+0009..U+000D, U+0020, U+00A0, U+1680,
\* U+2000..U+200A, U+2028, U+2029, U+202F, U+205F, U+3000 and U+FEFF
Whitespace ==
    {"\t", "\n", "LINE TABULATION", "\f", "\r", " ", "NO-BREAK SPACE",
     "OGHAM SPACE MARK", "EN QUAD", "EM QUAD", "EN SPACE", "EM SPACE",
     "THREE-PER-EM SPACE", "FOUR-PER-EM SPACE", "SIX-PER-EM SPACE", "FIGURE SPACE",
     "PUNCTUATION SPACE", "THIN SPACE", "HAIR SPACE", "LINE SEPARATOR",
     "PARAGRAPH SEPARATOR", "NARROW NO-BREAK SPACE", "MEDIUM MATHEMATICAL SPACE",
     "IDEOGRAPHIC SPACE", "ZERO WIDTH NO-BREAK SPACE"}

\* String.prototype.toLowerCase, on one character
toLowerCase(c) ==
    CASE c = "A" -> "a" [] c = "B" -> "b" [] c = "C" -> "c" [] c = "D" -> "d"
      [] c = "E" -> "e" [] c = "F" -> "f" [] c = "G" -> "g" [] c = "H" -> "h"
      [] c = "I" -> "i" [] c = "J" -> "j" [] c = "K" -> "k" [] c = "L" -> "l"
      [] c = "M" -> "m" [] c = "N" -> "n" [] c = "O" -> "o" [] c = "P" -> "p"
      [] c = "Q" -> "q" [] c = "R" -> "r" [] c = "S" -> "s" [] c = "T" -> "t"
      [] c = "U" -> "u" [] c = "V" -> "v" [] c = "W" -> "w" [] c = "X" -> "x"
      [] c = "Y" -> "y" [] c = "Z" -> "z"
      [] OTHER -> c

\* the character class of the first replace of splitTextTokens
SplitPunctuation == {".", "!", "?", ";", ":", "(", ")", "'", "\"", "EN DASH", "EM DASH"}

\* the character class of the second replace of splitTextTokens
SplitComma == {","}

\* the character class of the test in decode
DecodePunctuation ==
    {".", ",", "!", "?", ";", ":", "(", ")", "'", "\"", "BACKTICK", "EN DASH", "EM DASH", "-"}

RECURSIVE MapLower(_)
MapLower(s) ==
    IF s = <<>> THEN <<>> ELSE <<toLowerCase(Head(s))>> \o MapLower(Tail(s))

\* s.replace(/([P])/g, " $1 ")
RECURSIVE SpaceAround(_, _)
SpaceAround(s, P) ==
    IF s = <<>> THEN <<>>
    ELSE IF Head(s) \in P
         THEN <<" ", Head(s), " ">> \o SpaceAround(Tail(s), P)
         ELSE <<Head(s)>> \o SpaceAround(Tail(s), P)

\* s.replace(/\s+/g, " ")
RECURSIVE NormalizeWhitespace(_)
NormalizeWhitespace(s) ==
    IF s = <<>> THEN <<>>
    ELSE IF Head(s) \in Whitespace
         THEN IF Tail(s) # <<>> /\ Head(Tail(s)) \in Whitespace
              THEN NormalizeWhitespace(Tail(s))
              ELSE <<" ">> \o NormalizeWhitespace(Tail(s))
         ELSE <<Head(s)>> \o NormalizeWhitespace(Tail(s))

RECURSIVE trimStart(_)
trimStart(s) ==
    IF s # <<>> /\ Head(s) \in Whitespace THEN trimStart(Tail(s)) ELSE s

RECURSIVE trimEnd(_)
trimEnd(s) ==
    IF s # <<>> /\ s[Len(s)] \in Whitespace
    THEN trimEnd(SubSeq(s, 1, Len(s) - 1))
    ELSE s

trim(s) == trimStart(trimEnd(s))

\* s.split(" "): the pieces between single spaces, empty pieces included
RECURSIVE SplitAcc(_, _)
SplitAcc(s, piece) ==
    IF s = <<>> THEN <<piece>>
    ELSE IF Head(s) = " "
         THEN <<piece>> \o SplitAcc(Tail(s), <<>>)
         ELSE SplitAcc(Tail(s), Append(piece, Head(s)))

split(s) == SplitAcc(s, <<>>)

\* .filter((token) => token.length > 0)
NonEmpty(pieces) == SelectSeq(pieces, LAMBDA p : Len(p) > 0)

splitTextTokens(cs, text) ==
    LET processedText == IF cs THEN text ELSE MapLower(text)
    IN  NonEmpty(split(trim(NormalizeWhitespace(
            SpaceAround(SpaceAround(processedText, SplitPunctuation), SplitComma)))))

----------------------------------------------------------------------------
(* The vocabulary object. *)

\* the names of the members a plain object ({}, line 37) inherits
ObjectPrototypeNames ==
    << <<"c", "o", "n", "s", "t", "r", "u", "c", "t", "o", "r">>,
       <<"t", "o", "S", "t", "r", "i", "n", "g">>,
       <<"t", "o", "L", "o", "c", "a", "l", "e", "S", "t", "r", "i", "n", "g">>,
       <<"v", "a", "l", "u", "e", "O", "f">>,
       <<"h", "a", "s", "O", "w", "n", "P", "r", "o", "p", "e", "r", "t", "y">>,
       <<"i", "s", "P", "r", "o", "t", "o", "t", "y", "p", "e", "O", "f">>,
       <<"p", "r", "o", "p", "e", "r", "t", "y", "I", "s", "E", "n", "u", "m", "e", "r", "a", "b", "l", "e">>,
       <<"_", "_", "p", "r", "o", "t", "o", "_", "_">>,
       <<"_", "_", "d", "e", "f", "i", "n", "e", "G", "e", "t", "t", "e", "r", "_", "_">>,
       <<"_", "_", "d", "e", "f", "i", "n", "e", "S", "e", "t", "t", "e", "r", "_", "_">>,
       <<"_", "_", "l", "o", "o", "k", "u", "p", "G", "e", "t", "t", "e", "r", "_", "_">>,
       <<"_", "_", "l", "o", "o", "k", "u", "p", "S", "e", "t", "t", "e", "r", "_", "_">> >>

\* token names a member the vocabulary object inherits
Inherited(token) ==
    \E k \in 1..Len(ObjectPrototypeNames) : ObjectPrototypeNames[k] = token

\* the number n, as the value a lookup returns
Number(n) == [number |-> TRUE, n |-> n]

\* the k-th inherited member, as the value a lookup returns: a function or an
\* object, which equals no number and no other member
Member(k) == [number |-> FALSE, n |-> k]

\* the inherited member token names
InheritedValue(token) ==
    Member(CHOOSE k \in 1..Len(ObjectPrototypeNames) : ObjectPrototypeNames[k] = token)

\* token is a key of an entry of the object itself
hasOwn(v, token) == \E i \in 1..Len(v) : v[i].token = token

\* token in this.vocab: the entries of the object and what it inherits
hasToken(v, token) == hasOwn(v, token) \/ Inherited(token)

\* this.vocab[token], for a token that `in` finds: the value of the entry, or
\* else the inherited member
getTokenId(v, token) ==
    IF hasOwn(v, token) THEN Number(v[CHOOSE i \in 1..Len(v) : v[i].token = token].id)
    ELSE InheritedValue(token)

\* Object.keys(this.vocab).length
vocabSize(v) == Len(v)

Digits == {"0", "1", "2", "3", "4", "5", "6", "7", "8", "9"}

DigitValue(c) ==
    CASE c = "0" -> 0 [] c = "1" -> 1 [] c = "2" -> 2 [] c = "3" -> 3 [] c = "4" -> 4
      [] c = "5" -> 5 [] c = "6" -> 6 [] c = "7" -> 7 [] c = "8" -> 8 [] c = "9" -> 9

\* of two strings of digits without leading zeros, a writes the smaller number
IndexLess(a, b) ==
    \/ Len(a) < Len(b)
    \/ /\ Len(a) = Len(b)
       /\ \E i \in 1..Len(a) :
             /\ DigitValue(a[i]) < DigitValue(b[i])
             /\ \A j \in 1..(i - 1) : a[j] = b[j]

\* the greatest array index, 2^32 - 2
MaxArrayIndex == <<"4", "2", "9", "4", "9", "6", "7", "2", "9", "4">>

\* token is an array index: the canonical text of an integer 0..2^32 - 2; an
\* object lists such keys first, in ascending order
IsIndex(token) ==
    /\ Len(token) >= 1
    /\ \A i \in 1..Len(token) : token[i] \in Digits
    /\ Len(token) = 1 \/ token[1] # "0"
    /\ token = MaxArrayIndex \/ IndexLess(token, MaxArrayIndex)

\* the key "__proto__", for which an object inherits a setter
ProtoName == <<"_", "_", "p", "r", "o", "t", "o", "_", "_">>

\* an own property token: id is defined on the object: an old key keeps its
\* place; a new key that is an array index goes among the array indices, by its
\* value; any other new key is added last
DefineEntry(v, token, id) ==
    IF hasOwn(v, token)
    THEN [i \in 1..Len(v) |->
            IF v[i].token = token THEN [token |-> token, id |-> id] ELSE v[i]]
    ELSE IF IsIndex(token)
    THEN LET before == Cardinality({i \in 1..Len(v) :
                           IsIndex(v[i].token) /\ IndexLess(v[i].token, token)})
         IN  SubSeq(v, 1, before) \o <<[token |-> token, id |-> id]>>
                \o SubSeq(v, before + 1, Len(v))
    ELSE Append(v, [token |-> token, id |-> id])

\* this.vocab[token] = id: the property is defined, but for the key "__proto__"
\* on an object without such a key of its own: the assignment then calls the
\* inherited setter, which ignores a number
SetEntry(v, token, id) ==
    IF token = ProtoName /\ ~hasOwn(v, token) THEN v ELSE DefineEntry(v, token, id)

\* the entries are visited in insertion order, a later entry overwriting an
\* earlier one with the same id
RECURSIVE ReverseEntries(_, _)
ReverseEntries(entries, rv) ==
    IF entries = <<>> THEN rv
    ELSE ReverseEntries(Tail(entries), (Head(entries).id :> Head(entries).token) @@ rv)

buildReverseVocabFromVocab(v) == ReverseEntries(v, <<>>)

\* id is a key of this.reverseVocab: the keys are numbers, and the text of a
\* member is none of them
hasId(rv, id) == id.number /\ id.n \in DOMAIN rv

RECURSIVE SpecialEntries(_, _, _)
SpecialEntries(v, tokens, index) ==
    IF tokens = <<>> THEN v
    ELSE SpecialEntries(SetEntry(v, Head(tokens), index), Tail(tokens), index + 1)

\* the vocabulary initializeSpecialTokens leaves
initializeSpecialTokens(st) == SpecialEntries(<<>>, st, 0)

\* new Set(tokens), in its iteration order: first occurrences, in order
RECURSIVE UniqueAcc(_, _)
UniqueAcc(tokens, seen) ==
    IF tokens = <<>> THEN seen
    ELSE IF \E i \in 1..Len(seen) : seen[i] = Head(tokens)
         THEN UniqueAcc(Tail(tokens), seen)
         ELSE UniqueAcc(Tail(tokens), Append(seen, Head(tokens)))

uniqueTokens(tokens) == UniqueAcc(tokens, <<>>)

\* the loop of buildVocabFromInputText
RECURSIVE AddTextTokens(_, _, _)
AddTextTokens(v, tokens, max) ==
    IF tokens = <<>> THEN v
    ELSE IF max # 0 /\ vocabSize(v) >= max THEN v
    ELSE IF ~hasToken(v, Head(tokens))
         THEN AddTextTokens(SetEntry(v, Head(tokens), vocabSize(v)), Tail(tokens), max)
         ELSE AddTextTokens(v, Tail(tokens), max)

\* buildVocabFromInputText, were the vocabulary not emptied before the special
\* tokens are set
buildVocabFromInputTextKeeping(st, cs, max, text) ==
    AddTextTokens(SpecialEntries(thisVocab, st, 0), uniqueTokens(splitTextTokens(cs, text)), max)

\* the vocabulary buildVocabFromInputText leaves
buildVocabFromInputText(st, cs, max, text) ==
    AddTextTokens(initializeSpecialTokens(st), uniqueTokens(splitTextTokens(cs, text)), max)

\* tokenCounts after one more token: a Map keeps its keys in insertion order
CountToken(counts, token) ==
    IF \E i \in 1..Len(counts) : counts[i].token = token
    THEN [i \in 1..Len(counts) |->
            IF counts[i].token = token
            THEN [token |-> token, count |-> counts[i].count + 1]
            ELSE counts[i]]
    ELSE Append(counts, [token |-> token, count |-> 1])

RECURSIVE CountTokens(_, _)
CountTokens(counts, tokens) ==
    IF tokens = <<>> THEN counts
    ELSE CountTokens(CountToken(counts, Head(tokens)), Tail(tokens))

\* the first loop of buildVocabFromCorpus
RECURSIVE tokenCounts(_, _, _)
tokenCounts(counts, cs, texts) ==
    IF texts = <<>> THEN counts
    ELSE tokenCounts(CountTokens(counts, splitTextTokens(cs, Head(texts))), cs, Tail(texts))

\* InsertByCount, were an entry put before the entries with its count
RECURSIVE InsertByCountBeforeTies(_, _)
InsertByCountBeforeTies(sorted, e) ==
    IF sorted = <<>> THEN <<e>>
    ELSE IF Head(sorted).count > e.count
         THEN <<Head(sorted)>> \o InsertByCountBeforeTies(Tail(sorted), e)
         ELSE <<e>> \o sorted

\* one entry put into a list already sorted by falling count, after the entries
\* that have at least its count
RECURSIVE InsertByCount(_, _)
InsertByCount(sorted, e) ==
    IF sorted = <<>> THEN <<e>>
    ELSE IF Head(sorted).count >= e.count
         THEN <<Head(sorted)>> \o InsertByCount(Tail(sorted), e)
         ELSE <<e>> \o sorted

\* Array.prototype.sort with (a, b) => freqB - freqA: stable
RECURSIVE SortByCount(_, _)
SortByCount(entries, sorted) ==
    IF entries = <<>> THEN sorted
    ELSE SortByCount(Tail(entries), InsertByCount(sorted, Head(entries)))

sortedTokens(counts) ==
    LET sorted == SortByCount(counts, <<>>)
    IN  [i \in 1..Len(sorted) |-> sorted[i].token]

\* the second loop of buildVocabFromCorpus
RECURSIVE AddCorpusTokens(_, _, _)
AddCorpusTokens(v, tokens, max) ==
    IF tokens = <<>> THEN v
    ELSE IF max # 0 /\ vocabSize(v) >= max THEN v
    ELSE IF ~hasToken(v, Head(tokens))
         THEN AddCorpusTokens(SetEntry(v, Head(tokens), vocabSize(v)), Tail(tokens), max)
         ELSE AddCorpusTokens(v, Tail(tokens), max)

\* the vocabulary buildVocabFromCorpus leaves
buildVocabFromCorpus(st, cs, max, texts) ==
    AddCorpusTokens(initializeSpecialTokens(st),
                    sortedTokens(tokenCounts(<<>>, cs, texts)), max)

----------------------------------------------------------------------------
(* encode and decode. *)

UnkError == "UNK token not found in vocabulary"
ClsSepError == "Required special tokens (CLS, SEP) not found in vocabulary"

\* tokens.map(...) of encode: the ids, or the error thrown at the first token that
\* is no key when "<UNK>" is no key either
RECURSIVE TokenIds(_, _)
TokenIds(v, tokens) ==
    IF tokens = <<>> THEN [ok |-> TRUE, ids |-> <<>>, error |-> ""]
    ELSE IF ~hasToken(v, Head(tokens)) /\ ~hasToken(v, UNK)
         THEN [ok |-> FALSE, ids |-> <<>>, error |-> UnkError]
    ELSE LET tokenId == IF hasToken(v, Head(tokens))
                        THEN getTokenId(v, Head(tokens))
                        ELSE getTokenId(v, UNK)
             rest == TokenIds(v, Tail(tokens))
         IN  IF rest.ok
             THEN [ok |-> TRUE, ids |-> <<tokenId>> \o rest.ids, error |-> ""]
             ELSE rest

\* what encode(text) returns (ok, ids) or throws (~ok, error)
encode(v, cs, text) ==
    LET tokenIds == TokenIds(v, splitTextTokens(cs, text))
    IN  IF ~tokenIds.ok THEN tokenIds
        ELSE IF ~hasToken(v, CLS) \/ ~hasToken(v, SEP)
             THEN [ok |-> FALSE, ids |-> <<>>, error |-> ClsSepError]
        ELSE [ok |-> TRUE,
              ids |-> <<getTokenId(v, CLS)>> \o tokenIds.ids \o <<getTokenId(v, SEP)>>,
              error |-> ""]

\* this.specialTokens.includes(token)
isSpecial(st, token) == \E i \in 1..Len(st) : st[i] = token

\* the map and filter of decode, were an id that is no key of reverseVocab left out
RECURSIVE filteredTokensDroppingAbsent(_, _, _)
filteredTokensDroppingAbsent(rv, st, ids) ==
    IF ids = <<>> THEN <<>>
    ELSE IF ~hasId(rv, Head(ids)) \/ isSpecial(st, rv[Head(ids).n])
         THEN filteredTokensDroppingAbsent(rv, st, Tail(ids))
         ELSE <<rv[Head(ids).n]>> \o filteredTokensDroppingAbsent(rv, st, Tail(ids))

\* encodedTokens.map(...) then .filter(...) of decode: an id that is no key of
\* reverseVocab gives undefined, which equals no special token
RECURSIVE filteredTokens(_, _, _)
filteredTokens(rv, st, ids) ==
    IF ids = <<>> THEN <<>>
    ELSE IF ~hasId(rv, Head(ids))
         THEN <<UndefinedText>> \o filteredTokens(rv, st, Tail(ids))
    ELSE IF isSpecial(st, rv[Head(ids).n])
         THEN filteredTokens(rv, st, Tail(ids))
         ELSE <<rv[Head(ids).n]>> \o filteredTokens(rv, st, Tail(ids))

\* the test of decode, were the hyphen missing from its class
isPunctuationWithoutHyphen(token) ==
    Len(token) = 1 /\ token[1] \in DecodePunctuation \ {"-"}

\* /^[.,!?;:()'"`–—-]$/.test(token)
isPunctuation(token) == Len(token) = 1 /\ token[1] \in DecodePunctuation

\* the loop of decode, from index i (1-based) on
RECURSIVE MergeTokens(_, _, _)
MergeTokens(tokens, i, result) ==
    IF i > Len(tokens) THEN result
    ELSE LET attached == IF isPunctuation(tokens[i])
                         THEN trimEnd(result) \o tokens[i]
                         ELSE result \o tokens[i]
             spaced == IF i < Len(tokens) THEN attached \o <<" ">> ELSE attached
         IN  MergeTokens(tokens, i + 1, spaced)

\* what decode(encodedTokens) returns
decode(rv, st, ids) == trim(MergeTokens(filteredTokens(rv, st, ids), 1, <<>>))

----------------------------------------------------------------------------
(* The utility methods and serialization. *)

\* a value a method returns that is not the value undefined
Defined(x) == [defined |-> TRUE, value |-> x]

\* the value undefined a method returns
undefined == [defined |-> FALSE]

\* what getTokenId(token) returns: this.vocab[token]
GetTokenIdResult(v, token) ==
    IF hasToken(v, token) THEN Defined(getTokenId(v, token)) ELSE undefined

\* what getToken(id) returns: this.reverseVocab[id]
getToken(rv, id) == IF hasId(rv, id) THEN Defined(rv[id.n]) ELSE undefined

\* { ...object }: a new object on which the entries of object are defined, in
\* their order; no setter is called, so a key "__proto__" of object is copied
RECURSIVE SpreadInto(_, _)
SpreadInto(copy, entries) ==
    IF entries = <<>> THEN copy
    ELSE SpreadInto(DefineEntry(copy, Head(entries).token, Head(entries).id), Tail(entries))

ObjectSpread(v) == SpreadInto(<<>>, v)

\* what the getter vocabulary returns
vocabulary(v) == ObjectSpread(v)

\* no reference
NoRef == 0

\* the reference of a new object: the least one that none of held is, held
\* being the references still in use once the call has returned
NewRef(held) ==
    CHOOSE ref \in 1..(Cardinality(held) + 1) :
        /\ ref \notin held
        /\ \A other \in 1..(ref - 1) : other \in held

\* the objects in use after a call: those of before that are still held, and
\* the new object, which the call has left with the entries v
ObjectsAfter(held, ref, v) ==
    [other \in held \cup {ref} |-> IF other = ref THEN v ELSE objects[other]]

\* what toJSON() returns: vocab is the reference this.vocab holds, not a copy;
\* [...this.specialTokens] is a new array of the same elements
toJSON(v, st, cs) ==
    [vocab |-> v, specialTokens |-> [i \in 1..Len(st) |-> st[i]], caseSensitive |-> cs]

\* new CustomTokenizer({specialTokens, caseSensitive, maxVocabSize}): the
\* tokenizer, whose vocab is the reference ref, and the object ref refers to
NewTokenizer(st, cs, max, ref) ==
    [tokenizer |-> [specialTokens |-> st, caseSensitive |-> cs, maxVocabSize |-> max,
                    vocab |-> ref,
                    reverseVocab |-> buildReverseVocabFromVocab(initializeSpecialTokens(st))],
     object |-> initializeSpecialTokens(st)]

\* fromJSON, were the vocabulary of data not taken over
fromJSONWithoutVocab(data, ref) ==
    NewTokenizer(data.specialTokens, data.caseSensitive, 0, ref)

\* fromJSON(data): the tokenizer it returns, constructed without maxVocabSize,
\* and the object its vocab refers to: ref is the reference of the new object
\* { ...data.vocab }
fromJSON(data, ref) ==
    LET new == NewTokenizer(data.specialTokens, data.caseSensitive, 0, ref)
        v == ObjectSpread(objects[data.vocab])
    IN  [tokenizer |-> [new.tokenizer EXCEPT !.reverseVocab = buildReverseVocabFromVocab(v)],
         object |-> v]

----------------------------------------------------------------------------
(* The tokenizer as a state machine.  A caller constructs it and then calls
   the build operations, encode, decode and the utility methods in any order,
   one call at a time: last holds the call whose result the caller has not
   taken yet.  A caller that has restored a second tokenizer with
   fromJSON(toJSON()) holds it, with the serialized data, until the next result
   is taken. *)

Strings(chars, n) == UNION {[1..k -> chars] : k \in 0..n}

\* a word that names a member the vocabulary object inherits
Constructor == <<"c", "o", "n", "s", "t", "r", "u", "c", "t", "o", "r">>

\* the word with a capital, which names the member once it is lower-cased
CapitalConstructor == <<"C", "o", "n", "s", "t", "r", "u", "c", "t", "o", "r">>

\* texts with that word: alone, before and after a mark, and with a capital
MemberTexts ==
    {Constructor, Constructor \o <<"!">>, <<"!">> \o Constructor, CapitalConstructor}

\* texts with whitespace that is no space: a tab between two words, a line
\* feed before a word, a line tabulation and a no-break space around a mark
WhitespaceTexts ==
    {<<"A", "\t", "A">>, <<"\n", "A", " ">>, <<"LINE TABULATION", "!", "NO-BREAK SPACE">>}

\* a text with a word that is an array index, which the vocabulary object keeps
\* before its other keys
IndexTexts == {<<"A", " ", "7">>}

\* the texts a caller passes
Texts == Strings(Alphabet, MaxLen) \cup MemberTexts \cup IndexTexts \cup WhitespaceTexts

\* the corpora of one non-empty text of at most n characters, or of two that
\* have fewer than n characters in all
CorporaUpTo(n) ==
    LET NonEmptyTexts(m) == Strings(Alphabet, m) \ {<<>>}
    IN  {<<text>> : text \in NonEmptyTexts(n)} \cup
        UNION { {<<text, other>> : other \in NonEmptyTexts(n - 1 - Len(text))} :
                text \in NonEmptyTexts(n) }

\* the corpora a caller passes: the empty one, and those of one or two texts
Corpora ==
    {<<>>} \cup CorporaUpTo(MaxLen) \cup {<<text>> : text \in MemberTexts \cup IndexTexts \cup WhitespaceTexts}

\* the special-token lists a tokenizer is constructed with (any string[] is
\* accepted): the default one, one without "<UNK>" whose last token is also a
\* word of the texts, one without "<CLS>" and "<SEP>", one that repeats a word of
\* the texts, and one that starts with the key "__proto__"
DefaultSpecialTokens == <<PAD, UNK, CLS, SEP>>

SpecialTokenLists ==
    { DefaultSpecialTokens, <<CLS, SEP, <<"a">> >>, <<UNK>>,
      << <<"a">>, <<"a">> >>, <<ProtoName, CLS, SEP>> }

\* the values of maxVocabSize a tokenizer with the special tokens st is constructed
\* with: none (0), one less than the number of special tokens, that number, and
\* one more
MaxVocabSizes(st) == {0} \cup ((Len(st) - 1)..(Len(st) + 1))

\* the id sequences a caller passes to decode: the id of the last special token,
\* the ids after it and the first id beyond the vocabulary (the ids of the
\* other special tokens reach decode in what encode returns)
IdSeqs ==
    UNION {[1..k -> {Number(n) : n \in (Len(specialTokens) - 1)..vocabSize(thisVocab)}] :
           k \in 0..MaxIds}

\* no call pending.  text: the argument of buildVocabFromInputText and of encode;
\* texts: of buildVocabFromCorpus; ids: of decode; ok: the call returned (it threw
\* otherwise: error); outIds: what encode returned; outText: what decode returned;
\* the strings a caller passes to getTokenId and hasToken: the tokens of the
\* vocabulary, the strings of one character and the word Constructor
TokenArgs ==
    {thisVocab[i].token : i \in 1..Len(thisVocab)} \cup {<<c>> : c \in Alphabet} \cup {Constructor}

\* the ids a caller passes to getToken: ids of the vocabulary and the first id
\* beyond it
IdArgs == {Number(n) : n \in 0..vocabSize(thisVocab)}

\* the texts a caller passes to a build that follows fromJSON: the empty text and
\* the texts of one character
LaterTexts == {<<>>} \cup {<<c>> : c \in Alphabet}

\* no serialized data and no second tokenizer held
NoData == [vocab |-> NoRef, specialTokens |-> <<>>, caseSensitive |-> FALSE]

NoTokenizer ==
    [specialTokens |-> <<>>, caseSensitive |-> FALSE, maxVocabSize |-> 0,
     vocab |-> NoRef, reverseVocab |-> <<>>]

\* ofEncode: the argument of decode is what encode(text) returned;
\* token: the argument of getTokenId and
\* hasToken; id: of getToken; out: what a utility method returned; data: what
\* toJSON returned; restored: the tokenizer fromJSON(data) returned
NoCall == [op |-> "none", text |-> <<>>, texts |-> <<>>, ids |-> <<>>, ofEncode |-> FALSE,
           ok |-> TRUE, outIds |-> <<>>, outText |-> <<>>, error |-> "",
           token |-> <<>>, id |-> Number(0), out |-> undefined,
           data |-> NoData, restored |-> NoTokenizer]

Idle == last.op = "none"

\* constructor
Init ==
    /\ specialTokens \in SpecialTokenLists
    /\ caseSensitive \in BOOLEAN
    /\ maxVocabSize \in MaxVocabSizes(specialTokens)
    /\ vocab = NewRef({})
    /\ objects = ObjectsAfter({}, vocab, initializeSpecialTokens(specialTokens))
    /\ reverseVocab = buildReverseVocabFromVocab(thisVocab)
    /\ last = NoCall

\* the references the caller holds: that of the serialized data and that of the
\* restored tokenizer
HeldByCaller(call) == {call.data.vocab, call.restored.vocab} \ {NoRef}

\* also called, with a text of LaterTexts, while the caller holds a restored
\* tokenizer.  this.vocab = {} (line 37) makes this.vocab refer to a new object,
\* and the entries are written to that object
BuildVocabFromInputText ==
    /\ Idle \/ last.op = "fromJSON"
    /\ \E text \in IF Idle THEN Texts ELSE LaterTexts :
        /\ last' = [NoCall EXCEPT !.op = "buildVocabFromInputText", !.text = text,
                                  !.data = last.data, !.restored = last.restored]
        /\ vocab' = NewRef(HeldByCaller(last'))
        /\ objects' = ObjectsAfter(HeldByCaller(last'), vocab',
                          buildVocabFromInputText(specialTokens, caseSensitive,
                                                  maxVocabSize, text))
        /\ reverseVocab' = buildReverseVocabFromVocab(thisVocab')
        /\ UNCHANGED <<specialTokens, caseSensitive, maxVocabSize>>

BuildVocabFromCorpus ==
    /\ Idle
    /\ \E texts \in Corpora :
        /\ last' = [NoCall EXCEPT !.op = "buildVocabFromCorpus", !.texts = texts]
        /\ vocab' = NewRef(HeldByCaller(last'))
        /\ objects' = ObjectsAfter(HeldByCaller(last'), vocab',
                          buildVocabFromCorpus(specialTokens, caseSensitive,
                                               maxVocabSize, texts))
        /\ reverseVocab' = buildReverseVocabFromVocab(thisVocab')
        /\ UNCHANGED <<specialTokens, caseSensitive, maxVocabSize>>

\* encode, were a token that is no key added to the vocabulary
EncodeAdding ==
    /\ Idle
    /\ \E text \in Texts :
        LET r == encode(thisVocab, caseSensitive, text)
        IN  /\ last' = [NoCall EXCEPT !.op = "encode", !.text = text, !.ok = r.ok,
                                      !.outIds = r.ids, !.error = r.error]
            /\ objects' = [objects EXCEPT ![vocab] =
                              AddTextTokens(thisVocab, splitTextTokens(caseSensitive, text), 0)]
            /\ reverseVocab' = buildReverseVocabFromVocab(objects'[vocab])
            /\ UNCHANGED <<specialTokens, caseSensitive, maxVocabSize, vocab>>

Encode ==
    /\ Idle
    /\ \E text \in Texts :
        LET r == encode(thisVocab, caseSensitive, text)
        IN  /\ last' = [NoCall EXCEPT !.op = "encode", !.text = text, !.ok = r.ok,
                                      !.outIds = r.ids, !.error = r.error]
            /\ UNCHANGED <<specialTokens, caseSensitive, maxVocabSize, vocab,
                           reverseVocab, objects>>

Decode ==
    /\ Idle
    /\ \E ids \in IdSeqs :
        /\ last' = [NoCall EXCEPT !.op = "decode", !.ids = ids,
                                  !.outText = decode(reverseVocab, specialTokens, ids)]
        /\ UNCHANGED <<specialTokens, caseSensitive, maxVocabSize, vocab,
                       reverseVocab, objects>>

\* decode(encode(text)): the caller passes what encode returned on to decode
DecodeEncoded ==
    /\ last.op = "encode"
    /\ last.ok
    /\ last' = [NoCall EXCEPT !.op = "decode", !.ids = last.outIds, !.text = last.text,
                              !.ofEncode = TRUE,
                              !.outText = decode(reverseVocab, specialTokens, last.outIds)]
    /\ UNCHANGED <<specialTokens, caseSensitive, maxVocabSize, vocab, reverseVocab, objects>>

GetTokenId ==
    /\ Idle
    /\ \E token \in TokenArgs :
        /\ last' = [NoCall EXCEPT !.op = "getTokenId", !.token = token,
                                  !.out = GetTokenIdResult(thisVocab, token)]
        /\ UNCHANGED <<specialTokens, caseSensitive, maxVocabSize, vocab,
                       reverseVocab, objects>>

GetToken ==
    /\ Idle
    /\ \E id \in IdArgs :
        /\ last' = [NoCall EXCEPT !.op = "getToken", !.id = id,
                                  !.out = getToken(reverseVocab, id)]
        /\ UNCHANGED <<specialTokens, caseSensitive, maxVocabSize, vocab,
                       reverseVocab, objects>>

HasToken ==
    /\ Idle
    /\ \E token \in TokenArgs :
        /\ last' = [NoCall EXCEPT !.op = "hasToken", !.token = token,
                                  !.out = Defined(hasToken(thisVocab, token))]
        /\ UNCHANGED <<specialTokens, caseSensitive, maxVocabSize, vocab,
                       reverseVocab, objects>>

VocabSize ==
    /\ Idle
    /\ last' = [NoCall EXCEPT !.op = "vocabSize", !.out = Defined(vocabSize(thisVocab))]
    /\ UNCHANGED <<specialTokens, caseSensitive, maxVocabSize, vocab, reverseVocab, objects>>

\* the getter returns a new object, which the caller alone refers to
Vocabulary ==
    /\ Idle
    /\ last' = [NoCall EXCEPT !.op = "vocabulary", !.out = Defined(vocabulary(thisVocab))]
    /\ UNCHANGED <<specialTokens, caseSensitive, maxVocabSize, vocab, reverseVocab, objects>>

ToJSON ==
    /\ Idle
    /\ last' = [NoCall EXCEPT !.op = "toJSON",
                              !.data = toJSON(vocab, specialTokens, caseSensitive)]
    /\ UNCHANGED <<specialTokens, caseSensitive, maxVocabSize, vocab, reverseVocab, objects>>

\* fromJSON(toJSON()): the caller passes what toJSON returned on to fromJSON
FromJSON ==
    /\ last.op = "toJSON"
    /\ LET held == {vocab} \cup HeldByCaller(last)
           r == fromJSON(last.data, NewRef(held))
       IN  /\ last' = [NoCall EXCEPT !.op = "fromJSON", !.data = last.data,
                                     !.restored = r.tokenizer]
           /\ objects' = ObjectsAfter(held, r.tokenizer.vocab, r.object)
    /\ UNCHANGED <<specialTokens, caseSensitive, maxVocabSize, vocab, reverseVocab>>

\* buildVocabFromInputText called on the restored tokenizer: its vocab is made
\* to refer to a new object, and the entries are written to that object
BuildRestored ==
    /\ last.op = "fromJSON"
    /\ \E text \in LaterTexts :
        LET r == last.restored
            held == {vocab, last.data.vocab}
            ref == NewRef(held)
            v == buildVocabFromInputText(r.specialTokens, r.caseSensitive,
                                         r.maxVocabSize, text)
        IN  /\ last' = [NoCall EXCEPT !.op = "restored.buildVocabFromInputText",
                                      !.text = text,
                                      !.data = last.data,
                                      !.restored = [r EXCEPT !.vocab = ref,
                                          !.reverseVocab = buildReverseVocabFromVocab(v)]]
            /\ objects' = ObjectsAfter(held, ref, v)
            /\ UNCHANGED <<specialTokens, caseSensitive, maxVocabSize, vocab, reverseVocab>>

\* the caller takes the result, and lets go of what it held
TakeResult ==
    /\ ~Idle
    /\ last' = NoCall
    /\ objects' = [ref \in {vocab} |-> objects[ref]]
    /\ UNCHANGED <<specialTokens, caseSensitive, maxVocabSize, vocab, reverseVocab>>

Next ==
    \/ BuildVocabFromInputText
    \/ BuildVocabFromCorpus
    \/ Encode
    \/ Decode
    \/ DecodeEncoded
    \/ GetTokenId
    \/ GetToken
    \/ HasToken
    \/ VocabSize
    \/ Vocabulary
    \/ ToJSON
    \/ FromJSON
    \/ BuildRestored
    \/ TakeResult

Spec == Init /\ [][Next]_vars

----------------------------------------------------------------------------
(* What the claims speak of. *)

\* the number of special tokens
K == Len(specialTokens)

\* the tokens of the vocabulary
Tokens == {thisVocab[i].token : i \in 1..Len(thisVocab)}

\* the ids of the vocabulary
Ids == {thisVocab[i].id : i \in 1..Len(thisVocab)}

\* the id the vocabulary gives token t, a token of the vocabulary
IdOf(t) == thisVocab[CHOOSE i \in 1..Len(thisVocab) : thisVocab[i].token = t].id

\* the splitter tokens of the text of the last call
TextTokens == splitTextTokens(caseSensitive, last.text)

\* the splitter tokens of the corpus of the last call, text after text
RECURSIVE Flatten(_)
Flatten(texts) ==
    IF texts = <<>> THEN <<>>
    ELSE splitTextTokens(caseSensitive, Head(texts)) \o Flatten(Tail(texts))

CorpusTokens == Flatten(last.texts)

Occurrences(tokens, t) == {i \in 1..Len(tokens) : tokens[i] = t}

Count(tokens, t) == Cardinality(Occurrences(tokens, t))

FirstSeen(tokens, t) ==
    CHOOSE i \in Occurrences(tokens, t) : \A j \in Occurrences(tokens, t) : i <= j

\* the places of tokens that hold the first occurrence of a token that is no
\* special token
NewPlaces(tokens) ==
    {i \in 1..Len(tokens) :
        /\ ~isSpecial(specialTokens, tokens[i])
        /\ \A j \in 1..(i - 1) : tokens[j] # tokens[i]}

\* the n-th (from 1) distinct token of tokens that is no special token
NthNew(tokens, n) ==
    tokens[CHOOSE i \in NewPlaces(tokens) :
                Cardinality({j \in NewPlaces(tokens) : j < i}) = n - 1]

\* how many of u new tokens a build adds
Added(u) ==
    IF maxVocabSize = 0 \/ K + u <= maxVocabSize THEN u
    ELSE IF maxVocabSize >= K THEN maxVocabSize - K
    ELSE 0

----------------------------------------------------------------------------
(* C1: in every state reached by construction and any sequence of build,
   encode and decode calls, the inverse vocabulary is the bijective inverse of
   the vocabulary: reverseVocab[vocab[t]] = t for every token t,
   vocab[reverseVocab[i]] = i for every id i, and both have the same number of
   entries.  The code does not do this when a special token is configured
   twice or is "__proto__": the vocabulary then has fewer keys than there are
   special tokens, a build gives its size as id to the next token, and that id
   is the id of a special token already. *)
C1_InverseIsBijective ==
    /\ \A i \in 1..Len(thisVocab) :
          /\ thisVocab[i].id \in DOMAIN reverseVocab
          /\ reverseVocab[thisVocab[i].id] = thisVocab[i].token
    /\ \A id \in DOMAIN reverseVocab :
          /\ hasOwn(thisVocab, reverseVocab[id])
          /\ \A i \in 1..Len(thisVocab) : thisVocab[i].token = reverseVocab[id] => thisVocab[i].id = id
    /\ Cardinality(DOMAIN reverseVocab) = Len(thisVocab)
    /\ Cardinality(Tokens) = Len(thisVocab)

(* C2: after construction and after every build, the i-th configured special
   token has id i (from 0), and no other token has an id below the number of
   special tokens; also when the text built from contains a special token.
   The code does not do this for the special token "__proto__", which gets no
   id (the assignment of line 39 defines no key), nor for a special token that
   is configured twice, which has the id of its last place only. *)
C2_SpecialTokensFirst ==
    /\ \A i \in 1..K :
          /\ hasOwn(thisVocab, specialTokens[i])
          /\ IdOf(specialTokens[i]) = i - 1
    /\ \A i \in 1..Len(thisVocab) :
          thisVocab[i].id < K => thisVocab[i].token = specialTokens[thisVocab[i].id + 1]

\* the documented corpus build: ["a b b", "b c"] under the default configuration
CorpusExample ==
    buildVocabFromCorpus(DefaultSpecialTokens, FALSE, 0,
                         << <<"a", " ", "b", " ", "b">>, <<"b", " ", "c">> >>)
      = << [token |-> PAD, id |-> 0], [token |-> UNK, id |-> 1],
           [token |-> CLS, id |-> 2], [token |-> SEP, id |-> 3],
           [token |-> <<"b">>, id |-> 4], [token |-> <<"a">>, id |-> 5],
           [token |-> <<"c">>, id |-> 6] >>

(* C3: buildVocabFromCorpus gives the tokens that are no special tokens ids in
   the order of falling total count; of two tokens with the same count, the
   one seen first has the smaller id.  ["a b b", "b c"] with the default
   configuration gives b:4, a:5, c:6. *)
C3_CorpusOrder ==
    /\ last.op = "buildVocabFromCorpus" =>
          \A a, b \in Tokens :
              /\ ~isSpecial(specialTokens, a)
              /\ ~isSpecial(specialTokens, b)
              /\ \/ Count(CorpusTokens, a) > Count(CorpusTokens, b)
                 \/ /\ Count(CorpusTokens, a) = Count(CorpusTokens, b)
                    /\ FirstSeen(CorpusTokens, a) < FirstSeen(CorpusTokens, b)
              => IdOf(a) < IdOf(b)
    /\ CorpusExample

\* a corpus build gave a token seen later the smaller id, for its higher count
C3_Witness ==
    /\ last.op = "buildVocabFromCorpus"
    /\ \E a, b \in Tokens :
          /\ ~isSpecial(specialTokens, a)
          /\ ~isSpecial(specialTokens, b)
          /\ FirstSeen(CorpusTokens, a) < FirstSeen(CorpusTokens, b)
          /\ Count(CorpusTokens, a) < Count(CorpusTokens, b)
          /\ IdOf(b) < IdOf(a)

\* the documented text build: "Hello world!" under the default configuration
TextExample ==
    buildVocabFromInputText(DefaultSpecialTokens, FALSE, 0,
        <<"H", "e", "l", "l", "o", " ", "w", "o", "r", "l", "d", "!">>)
      = << [token |-> PAD, id |-> 0], [token |-> UNK, id |-> 1],
           [token |-> CLS, id |-> 2], [token |-> SEP, id |-> 3],
           [token |-> <<"h", "e", "l", "l", "o">>, id |-> 4],
           [token |-> <<"w", "o", "r", "l", "d">>, id |-> 5],
           [token |-> <<"!">>, id |-> 6] >>

(* C4: buildVocabFromInputText(text) resets the vocabulary to the special
   tokens and gives the distinct splitter tokens of text that are not yet
   present, in the order of their first occurrence, the ids K, K + 1, ...; it
   stops at the first token for which the size has reached maxVocabSize.
   "Hello world!" with the default configuration gives hello:4, world:5, !:6.
   The code does not do this for a token that names a member the vocabulary
   object inherits: `token in this.vocab` holds of it, and it gets no id. *)
C4_TextBuildOrder ==
    /\ last.op = "buildVocabFromInputText" =>
          LET n == Added(Cardinality(NewPlaces(TextTokens)))
          IN  /\ vocabSize(thisVocab) = K + n
              /\ \A i \in 1..K :
                    hasOwn(thisVocab, specialTokens[i]) /\ IdOf(specialTokens[i]) = i - 1
              /\ \A j \in 1..n :
                    /\ hasOwn(thisVocab, NthNew(TextTokens, j))
                    /\ IdOf(NthNew(TextTokens, j)) = K + j - 1
    /\ TextExample

(* C5: after buildVocabFromInputText(t) the size is the number of special
   tokens plus the number of unique splitter tokens of t, reduced to
   maxVocabSize when that sum exceeds it.  Stated here for the texts without a
   special token and for a maxVocabSize, if any, of at least the number of
   special tokens.  The code does not do this when a token of t names a member
   the vocabulary object inherits. *)
C5_Size ==
    (/\ last.op = "buildVocabFromInputText"
     /\ \A i \in 1..Len(TextTokens) : ~isSpecial(specialTokens, TextTokens[i])
     /\ maxVocabSize = 0 \/ maxVocabSize >= K) =>
        LET sum == K + Len(uniqueTokens(TextTokens))
        IN  vocabSize(thisVocab) =
                IF maxVocabSize # 0 /\ sum > maxVocabSize THEN maxVocabSize ELSE sum

(* C6: with maxVocabSize = m at least the number of special tokens, the size
   never exceeds m after any sequence of builds, and a truncated build leaves
   the ids contiguous from 0 and the inverse vocabulary consistent.  The code
   does not do this when a special token is configured twice or is
   "__proto__": the ids then do not start at 0 or two tokens have the same id,
   and the inverse vocabulary holds one of the two. *)
C6_SizeCap ==
    (maxVocabSize # 0 /\ maxVocabSize >= K) =>
        /\ vocabSize(thisVocab) <= maxVocabSize
        /\ Ids = 0..(vocabSize(thisVocab) - 1)
        /\ DOMAIN reverseVocab = Ids
        /\ \A i \in 1..Len(thisVocab) : reverseVocab[thisVocab[i].id] = thisVocab[i].token

(* C7: when encode(text) returns, the result is the id of "<CLS>", then one id
   for each splitter token of text in order, then the id of "<SEP>"; the id of
   a token is its id in the vocabulary when it has one and the id of "<UNK>"
   otherwise; so the result has two ids more than text has tokens, and every
   id of it is an id of the vocabulary.  The code does not do this for a token
   that names a member the vocabulary object inherits: this.vocab[token] is
   that member, and encode returns it in the place of an id. *)
C7_EncodeResult ==
    (last.op = "encode" /\ last.ok) =>
        /\ Len(last.outIds) = Len(TextTokens) + 2
        /\ hasOwn(thisVocab, CLS) /\ last.outIds[1] = Number(IdOf(CLS))
        /\ hasOwn(thisVocab, SEP) /\ last.outIds[Len(last.outIds)] = Number(IdOf(SEP))
        /\ \A i \in 1..Len(TextTokens) :
              IF TextTokens[i] \in Tokens
              THEN last.outIds[i + 1] = Number(IdOf(TextTokens[i]))
              ELSE hasOwn(thisVocab, UNK) /\ last.outIds[i + 1] = Number(IdOf(UNK))
        /\ \A i \in 1..Len(last.outIds) :
              last.outIds[i].number /\ last.outIds[i].n \in Ids

(* C8: encode fails, and returns no sequence, whenever the vocabulary lacks
   "<UNK>", "<CLS>" or "<SEP>", and never fails when it has all three.  Stated
   here, where "<UNK>" is the one that is missing, for the texts with a token
   that is not in the vocabulary.  The code does not fail when that token
   names a member the vocabulary object inherits. *)
C8_Fails ==
    last.op = "encode" =>
        /\ (~hasOwn(thisVocab, CLS) \/ ~hasOwn(thisVocab, SEP)) => ~last.ok
        /\ (/\ ~hasOwn(thisVocab, UNK)
            /\ \E i \in 1..Len(TextTokens) : TextTokens[i] \notin Tokens) => ~last.ok
        /\ (hasOwn(thisVocab, UNK) /\ hasOwn(thisVocab, CLS) /\ hasOwn(thisVocab, SEP)) => last.ok
        /\ ~last.ok => last.outIds = <<>>

\* the token decode maps id to: undefined when id is no key of reverseVocab
TokenOf(id) == IF hasId(reverseVocab, id) THEN reverseVocab[id.n] ELSE UndefinedText

\* id is the id of a special token
SpecialId(id) == hasId(reverseVocab, id) /\ isSpecial(specialTokens, reverseVocab[id.n])

\* ids without the ids of special tokens
KeptIds(ids) == SelectSeq(ids, LAMBDA id : ~SpecialId(id))

\* the punctuation set of the claim: . , ! ? ; : ( ) ' " ` en dash, em dash, -
ClaimedPunctuation ==
    {<<".">>, <<",">>, <<"!">>, <<"?">>, <<";">>, <<":">>, <<"(">>, <<")">>, <<"'">>,
     <<"\"">>, <<"BACKTICK">>, <<"EN DASH">>, <<"EM DASH">>, <<"-">>}

\* the rule of the claim, token after token: what the result is after the first n
\* of tokens
RECURSIVE JoinedUpTo(_, _)
JoinedUpTo(tokens, n) ==
    IF n = 0 THEN <<>>
    ELSE LET before == JoinedUpTo(tokens, n - 1)
             space == IF n = Len(tokens) THEN <<>> ELSE <<" ">>
         IN  IF tokens[n] \in ClaimedPunctuation
             THEN trimEnd(before) \o tokens[n] \o space
             ELSE before \o tokens[n] \o space

\* the same in one piece: the tokens in order, one space before each token but
\* the first that is no punctuation
RECURSIVE SpacedFrom(_, _)
SpacedFrom(tokens, i) ==
    IF i > Len(tokens) THEN <<>>
    ELSE (IF i > 1 /\ tokens[i] \notin ClaimedPunctuation THEN <<" ">> ELSE <<>>)
         \o tokens[i] \o SpacedFrom(tokens, i + 1)

(* C9: decode(ids) drops every token that is a special token, wherever it
   stands, so it equals decode of ids without the ids of special tokens; the
   other tokens are joined left to right: a punctuation token is attached after
   the trailing space of the result so far is removed, any other token is
   appended, each is followed by one space unless it is the last, and the
   result is trimmed. *)
C9_Decode ==
    last.op = "decode" =>
        LET kept == KeptIds(last.ids)
            tokens == [i \in 1..Len(kept) |-> TokenOf(kept[i])]
        IN  /\ last.outText = decode(reverseVocab, specialTokens, kept)
            /\ last.outText = trim(JoinedUpTo(tokens, Len(tokens)))
            /\ last.outText = SpacedFrom(tokens, 1)

\* decode dropped a special token between two others and attached a punctuation
\* token to the token before it
C9_Witness ==
    /\ last.op = "decode"
    /\ \E i \in 2..(Len(last.ids) - 1) : SpecialId(last.ids[i])
    /\ LET kept == KeptIds(last.ids)
       IN  \E i \in 2..Len(kept) : TokenOf(kept[i]) \in ClaimedPunctuation

\* the case-folded (unless case-sensitive), whitespace-normalized form of text
Normalized(text) ==
    trim(NormalizeWhitespace(IF caseSensitive THEN text ELSE MapLower(text)))

\* the words of text are separated by single spaces: its whitespace is spaces,
\* and no two of them are neighbours
SingleSpaced(text) ==
    /\ \A i \in 1..Len(text) : text[i] \in Whitespace => text[i] = " "
    /\ \A i \in 1..(Len(text) - 1) : ~(text[i] = " " /\ text[i + 1] = " ")

\* the marks the splitter sets apart
Marks == SplitPunctuation \cup SplitComma

\* a token starts at place p of the normalized text n
TokenStart(n, p) ==
    /\ n[p] # " "
    /\ p = 1 \/ n[p - 1] = " " \/ n[p - 1] \in Marks \/ n[p] \in Marks

\* the token that starts at place p of n is one punctuation character
PunctuationAt(n, p) ==
    /\ <<n[p]>> \in ClaimedPunctuation
    /\ n[p] \in Marks \/ p = Len(n) \/ n[p + 1] = " " \/ n[p + 1] \in Marks

\* in n, a token after the first follows a space exactly when it is no punctuation
\* character
SpacedAsDecoded(n) ==
    \A p \in 2..Len(n) :
        TokenStart(n, p) => ((n[p - 1] = " ") <=> ~PunctuationAt(n, p))

\* no splitter token of the text is a special token, and each is in the vocabulary
AllPlainAndKnown ==
    \A i \in 1..Len(TextTokens) :
        /\ ~isSpecial(specialTokens, TextTokens[i])
        /\ TextTokens[i] \in Tokens

(* C10: for a text t whose words are separated by single spaces and that
   holds no special token, decode(encode(t)) is the case-folded (unless
   case-sensitive), whitespace-normalized t.  Stated here for the texts whose
   splitter tokens are all in the vocabulary and in which a token after the
   first follows a space exactly when it is no single punctuation character:
   decode puts no space before such a token and one space before any other.
   The code does not do this when another token of the vocabulary has the id
   of a token of t or of "<SEP>": decode then returns the other token. *)
C10_RoundTrip ==
    (/\ last.op = "decode"
     /\ last.ofEncode
     /\ SingleSpaced(last.text)
     /\ AllPlainAndKnown
     /\ SpacedAsDecoded(Normalized(last.text)))
        => last.outText = Normalized(last.text)

----------------------------------------------------------------------------
\* the special tokens that are keys of the vocabulary once the special tokens
\* are set: all but "__proto__", whose assignment (line 39) defines no key
SpecialKeys == {specialTokens[i] : i \in 1..K} \ {ProtoName}

\* the first and the last place of the special token s in the configured list
FirstPlace(s) ==
    CHOOSE i \in 1..K : specialTokens[i] = s /\ \A j \in 1..(i - 1) : specialTokens[j] # s

LastPlace(s) ==
    CHOOSE i \in 1..K : specialTokens[i] = s /\ \A j \in (i + 1)..K : specialTokens[j] # s

\* the tokens of the argument a build can add: those that are no special token
\* and name no member the vocabulary object inherits
Addable(tokens) ==
    {t \in {tokens[i] : i \in 1..Len(tokens)} :
        ~isSpecial(specialTokens, t) /\ ~Inherited(t)}

\* in a text, a comes before b: by first occurrence
EarlierInText(tokens, a, b) == FirstSeen(tokens, a) < FirstSeen(tokens, b)

\* in a corpus, a comes before b: by falling count, then by first occurrence
EarlierInCorpus(tokens, a, b) ==
    \/ Count(tokens, a) > Count(tokens, b)
    \/ /\ Count(tokens, a) = Count(tokens, b)
       /\ FirstSeen(tokens, a) < FirstSeen(tokens, b)

\* the vocabulary and the inverse vocabulary are those a build gives for the
\* configuration and for the argument alone, tokens being the splitter tokens of
\* the argument and Earlier the order the build takes them in.  The keys are the
\* special tokens and the first addable tokens, as many as maxVocabSize leaves
\* room for; a special token has the index of its last place as id, and an added
\* token the size of the vocabulary before it; the keys that are array indices
\* stand first, ascending, and the others in the order they were set; the
\* inverse vocabulary gives every id the last key that has it
BuiltFrom(tokens, Earlier(_, _, _)) ==
    LET addable == Addable(tokens)
        size == Cardinality(SpecialKeys)
        room == IF maxVocabSize = 0 THEN Cardinality(addable)
                ELSE IF maxVocabSize > size THEN maxVocabSize - size
                ELSE 0
        Rank(t) == Cardinality({u \in addable : Earlier(tokens, u, t)})
        added == {t \in addable : Rank(t) < room}
        Id(t) == IF t \in SpecialKeys THEN LastPlace(t) - 1 ELSE size + Rank(t)
        SetAt(t) == IF t \in SpecialKeys THEN FirstPlace(t) ELSE K + 1 + Rank(t)
        Precedes(a, b) ==
            IF IsIndex(a) THEN ~IsIndex(b) \/ IndexLess(a, b)
            ELSE ~IsIndex(b) /\ SetAt(a) < SetAt(b)
    IN  /\ Tokens = SpecialKeys \cup added
        /\ Len(thisVocab) = Cardinality(Tokens)
        /\ \A i \in 1..Len(thisVocab) : thisVocab[i].id = Id(thisVocab[i].token)
        /\ \A i, j \in 1..Len(thisVocab) :
              i < j => Precedes(thisVocab[i].token, thisVocab[j].token)
        /\ DOMAIN reverseVocab = Ids
        /\ \A i \in 1..Len(thisVocab) :
              reverseVocab[thisVocab[i].id] = thisVocab[i].token
                <=> \A j \in (i + 1)..Len(thisVocab) : thisVocab[j].id # thisVocab[i].id

\* token occurs in the sequence tokens
OccursIn(tokens, token) == \E i \in 1..Len(tokens) : tokens[i] = token

(* C11: a build is a full reset.  After buildVocabFromInputText(x) or
   buildVocabFromCorpus(xs), whatever was called before, the vocabulary and the
   inverse vocabulary are those the configuration and the argument determine,
   and every token of the vocabulary is a special token or a token of the
   argument: no token of an earlier build is left that the argument does not
   hold. *)
C11_BuildResets ==
    /\ last.op = "buildVocabFromInputText" =>
          /\ BuiltFrom(TextTokens, EarlierInText)
          /\ \A t \in Tokens : isSpecial(specialTokens, t) \/ OccursIn(TextTokens, t)
    /\ last.op = "buildVocabFromCorpus" =>
          /\ BuiltFrom(CorpusTokens, EarlierInCorpus)
          /\ \A t \in Tokens : isSpecial(specialTokens, t) \/ OccursIn(CorpusTokens, t)

\* a text build on a vocabulary the caller had just serialized: the build added
\* a token, and a token of the earlier build is no longer in the vocabulary
C11_Witness ==
    /\ last.op = "buildVocabFromInputText"
    /\ last.restored # NoTokenizer
    /\ Len(thisVocab) > K
    /\ \E i \in 1..Len(objects[last.data.vocab]) :
          ~hasOwn(thisVocab, objects[last.data.vocab][i].token)

----------------------------------------------------------------------------
\* the object the vocab of the restored tokenizer refers to
RestoredVocab == objects[last.restored.vocab]

(* C12: fromJSON(toJSON(T)) is a tokenizer with the vocabulary, the inverse
   vocabulary, the special-token list and the case-sensitivity flag of T, so
   encode, decode, getTokenId, getToken and hasToken return on it what they
   return on T, for every argument; a later build on the restored tokenizer
   leaves the vocabulary and the inverse vocabulary of T as they were, and a
   later build on T leaves those of the restored tokenizer as they were. *)
C12_SerializationRoundTrip ==
    /\ [](last.op = "fromJSON" =>
            LET r == last.restored
            IN  /\ RestoredVocab = thisVocab
                /\ r.reverseVocab = reverseVocab
                /\ r.specialTokens = specialTokens
                /\ r.caseSensitive = caseSensitive
                /\ \A text \in Texts :
                      encode(RestoredVocab, r.caseSensitive, text)
                        = encode(thisVocab, caseSensitive, text)
                /\ \A ids \in IdSeqs :
                      decode(r.reverseVocab, r.specialTokens, ids)
                        = decode(reverseVocab, specialTokens, ids)
                /\ \A token \in TokenArgs :
                      /\ GetTokenIdResult(RestoredVocab, token)
                           = GetTokenIdResult(thisVocab, token)
                      /\ hasToken(RestoredVocab, token) = hasToken(thisVocab, token)
                /\ \A id \in IdArgs :
                      getToken(r.reverseVocab, id) = getToken(reverseVocab, id))
    /\ [][last'.op = "restored.buildVocabFromInputText" =>
             /\ thisVocab' = thisVocab
             /\ reverseVocab' = reverseVocab]_vars
    /\ [][(last.op = "fromJSON" /\ last'.op = "buildVocabFromInputText") =>
             /\ RestoredVocab' = RestoredVocab
             /\ last'.restored.reverseVocab = last.restored.reverseVocab]_vars

\* a case-sensitive tokenizer with a maximum size and a token beyond the special
\* tokens was serialized and restored, and a build on the restored tokenizer has
\* left it with another vocabulary than the first tokenizer has
C12_Witness ==
    /\ last.op = "restored.buildVocabFromInputText"
    /\ caseSensitive
    /\ maxVocabSize # 0
    /\ Len(thisVocab) > K
    /\ last.data.vocab = vocab
    /\ RestoredVocab # thisVocab

----------------------------------------------------------------------------
\* the calls that only read
Readers ==
    {"encode", "decode", "getTokenId", "getToken", "hasToken", "vocabSize",
     "vocabulary", "toJSON"}

(* C13: a step that is a call of encode (returning or failing), decode,
   getTokenId, getToken, hasToken, vocabSize, vocabulary or toJSON leaves the
   vocabulary, the inverse vocabulary, the special-token list, the
   case-sensitivity flag and the maximum size as they were, whatever the
   argument. *)
C13_ReadersLeaveState ==
    [][last'.op \in Readers =>
          /\ vocab' = vocab
          /\ thisVocab' = thisVocab
          /\ reverseVocab' = reverseVocab
          /\ specialTokens' = specialTokens
          /\ caseSensitive' = caseSensitive
          /\ maxVocabSize' = maxVocabSize]_vars

\* encode failed on a token that is not in a vocabulary built beyond the special
\* tokens, and the token is still not in it
C13_Witness ==
    /\ last.op = "encode"
    /\ ~last.ok
    /\ Len(thisVocab) > K
    /\ \E i \in 1..Len(TextTokens) : ~hasOwn(thisVocab, TextTokens[i])

----------------------------------------------------------------------------
\* the places of ids that hold an id absent from the inverse vocabulary
AbsentPlaces(ids) == {i \in 1..Len(ids) : ~hasId(reverseVocab, ids[i])}

\* a number that is no id of the inverse vocabulary
FreshId ==
    CHOOSE n \in 0..Cardinality(DOMAIN reverseVocab) : n \notin DOMAIN reverseVocab

\* the inverse vocabulary with one more id, that of the word "undefined"
WithPlaceholder == (FreshId :> UndefinedText) @@ reverseVocab

\* ids, with that id for every id absent from the inverse vocabulary
Replaced(ids) ==
    [i \in 1..Len(ids) |-> IF hasId(reverseVocab, ids[i]) THEN ids[i] ELSE Number(FreshId)]

\* how often the placeholder stands in text
Placeholders(text) ==
    Cardinality({p \in 1..(Len(text) - Len(UndefinedText) + 1) :
                    SubSeq(text, p, p + Len(UndefinedText) - 1) = UndefinedText})

(* C14: decode returns, it does not fail, when ids are absent from the inverse
   vocabulary; its result holds the placeholder "undefined" once for each such
   id, and it is the text decode returns when each absent id is the id of an
   ordinary word "undefined": the placeholder is joined like a word token and
   the tokens of the other ids are decoded as usual. *)
C14_AbsentIdPlaceholder ==
    last.op = "decode" =>
        /\ last.ok
        /\ last.error = ""
        /\ Placeholders(last.outText) = Cardinality(AbsentPlaces(last.ids))
        /\ last.outText = decode(WithPlaceholder, specialTokens, Replaced(last.ids))

\* decode was given a word token followed by an absent id
C14_Witness ==
    /\ last.op = "decode"
    /\ ~last.ofEncode
    /\ \E i \in 2..Len(last.ids) :
          /\ i \in AbsentPlaces(last.ids)
          /\ i - 1 \notin AbsentPlaces(last.ids)
          /\ ~SpecialId(last.ids[i - 1])
          /\ TokenOf(last.ids[i - 1]) \notin ClaimedPunctuation
    /\ Placeholders(last.outText) > 0

====
